---------------------------- MODULE Spec2Model ----------------------------
(***************************************************************************)
(* A model of the content-copy-tool orchestrator (content-copy.py) and of  *)
(* the Bookmap entity model (lib/bookmap.py).                              *)
(*                                                                         *)
(* Python strings are sequences of one-character strings, so that length,  *)
(* concatenation and ordering are those of the program.                    *)
(***************************************************************************)
EXTENDS Integers, Sequences, FiniteSets, TLC

(***************************************************************************)
(* Bounds of the model.                                                    *)
(***************************************************************************)
MaxRows == 2

\* The number of collaborator calls that fail in one run.
MaxFaults == 2

(***************************************************************************)
(* The values manifest cells are drawn from.                               *)
(***************************************************************************)
APPENDIX == <<"A", "P", "P", "E", "N", "D", "I", "X">>

Row(chapter, unit) == [chapter_number |-> chapter, unit_number |-> unit]

\* A row of a manifest that names the module it was placed in by an earlier run.
PlacedRow(chapter, unit, id) ==
    [chapter_number |-> chapter, unit_number |-> unit, destination_id |-> id]

\* The rows a manifest is made of: front matter (placed by an earlier run), a
\* chapter whose modules are of a unit and of the appendix, and a chapter of a
\* longer number.
ManifestRows ==
    { PlacedRow(<<"0">>, <<"1">>, <<"m", "0">>),
      Row(<<"1">>, <<"1">>),
      Row(<<"1">>, APPENDIX),
      Row(<<"1", "0">>, <<"1">>) }

Manifests == UNION {[1..n -> ManifestRows] : n \in 0..MaxRows}

\* The command-line selections (include list, exclude list) that are tried.
ChapterArgs ==
    { [chapters |-> <<>>, exclude |-> <<>>],
      [chapters |-> << <<"1">> >>, exclude |-> <<>>] }

FlagNames == {"modules", "workgroups", "copy", "accept_roles", "collections",
              "units", "publish", "publish_collection", "dryrun"}

(***************************************************************************)
(* Sequence helpers.                                                       *)
(***************************************************************************)
Range(s) == {s[i] : i \in 1..Len(s)}

\* list.remove(x): removes the first element equal to x.
RemoveFirst(s, x) ==
    LET i == CHOOSE k \in 1..Len(s) : s[k] = x /\ \A j \in 1..(k - 1) : s[j] /= x
    IN  SubSeq(s, 1, i - 1) \o SubSeq(s, i + 1, Len(s))

\* [x for x in s if x not in excl]
RECURSIVE Without(_, _)
Without(s, excl) ==
    IF s = <<>> THEN <<>>
    ELSE IF Head(s) \in Range(excl) THEN Without(Tail(s), excl)
         ELSE <<Head(s)>> \o Without(Tail(s), excl)

(***************************************************************************)
(* String order (Python compares byte strings lexicographically).          *)
(***************************************************************************)
Ord(c) ==
    CASE c = " " -> 32
      [] c = "0" -> 48 [] c = "1" -> 49 [] c = "2" -> 50 [] c = "3" -> 51
      [] c = "A" -> 65 [] c = "D" -> 68 [] c = "E" -> 69 [] c = "I" -> 73
      [] c = "N" -> 78 [] c = "P" -> 80 [] c = "T" -> 84 [] c = "X" -> 88
      [] OTHER   -> 90

RECURSIVE StrLess(_, _)
StrLess(a, b) ==
    IF b = <<>> THEN FALSE
    ELSE IF a = <<>> THEN TRUE
    ELSE IF Ord(Head(a)) /= Ord(Head(b)) THEN Ord(Head(a)) < Ord(Head(b))
    ELSE StrLess(Tail(a), Tail(b))

\* list.sort() of a list of strings.
RECURSIVE SortStrings(_)
SortStrings(s) ==
    IF s = <<>> THEN <<>>
    ELSE LET i == CHOOSE k \in 1..Len(s) :
                     /\ \A j \in 1..Len(s) : ~StrLess(s[j], s[k])
                     /\ \A j \in 1..(k - 1) : s[j] /= s[k]
         IN  <<s[i]>> \o SortStrings(SubSeq(s, 1, i - 1) \o SubSeq(s, i + 1, Len(s)))

(***************************************************************************)
(* Object identity of two strings held in different objects ("is").  The   *)
(* interpreter shares the empty string and one-character strings; whether  *)
(* two equal longer strings are one object is left to the interpreter.     *)
(***************************************************************************)
IsOutcomes(a, b) ==
    IF a /= b THEN {FALSE}
    ELSE IF Len(a) <= 1 THEN {TRUE}
    ELSE {FALSE, TRUE}

(***************************************************************************)
(* Entity model (lib/bookmap.py).                                          *)
(***************************************************************************)
\* The module title of row i; the manifests tried carry no section number.
TitleOfRow(i) == <<"T", CASE i = 1 -> "1" [] i = 2 -> "2" [] OTHER -> "3">>

\* safe_process_column: the cell of a column, '' for a column the row lacks.
Cell(row, column) == IF column \in DOMAIN row THEN row[column] ELSE <<>>

\* A module as Bookmap.convert leaves it: columns the manifest lacks keep ''.
CNXModule(title, section_number, row) ==
    [ title                     |-> title,
      section_number            |-> section_number,
      source_workspace_url      |-> Cell(row, "source_workspace_url"),
      source_id                 |-> Cell(row, "source_id"),
      destination_workspace_url |-> Cell(row, "destination_workspace_url"),
      destination_id            |-> Cell(row, "destination_id"),
      chapter_title             |-> Cell(row, "chapter_title"),
      chapter_number            |-> Cell(row, "chapter_number"),
      unit_number               |-> Cell(row, "unit_number"),
      unit_title                |-> Cell(row, "unit_title"),
      valid                     |-> TRUE ]

full_title(m) ==
    IF m.section_number /= <<>> /\ m.section_number /= <<" ">>
    THEN m.section_number \o <<" ">> \o m.title
    ELSE m.title

Workgroup(chapter) ==
    [ chapter_number |-> chapter, unit_number |-> <<>>, modules |-> <<>> ]

\* Bookmap.get_chapters: distinct chapter numbers in file order.
RECURSIVE get_chapters_from(_, _)
get_chapters_from(rows, acc) ==
    IF rows = <<>> THEN acc
    ELSE get_chapters_from(Tail(rows),
                           IF Head(rows).chapter_number \in Range(acc) THEN acc
                           ELSE Append(acc, Head(rows).chapter_number))

get_chapters(rows) == get_chapters_from(rows, <<>>)

\* A resolution that applies the exclude list to discovered chapters only.
ResolveChaptersExcludeDiscovered(rows, include, exclude) ==
    IF include = <<>>
    THEN (IF exclude /= <<>> THEN Without(get_chapters(rows), exclude)
          ELSE get_chapters(rows))
    ELSE include

\* Bookmap.__init__: the resolution of the active chapter set.
ResolveChapters(rows, include, exclude) ==
    LET base == IF include = <<>> THEN get_chapters(rows) ELSE include
    IN  IF exclude /= <<>> THEN Without(base, exclude) ELSE base

\* Bookmap.strip_section_numbers: a title that starts with a digit is split
\* at its first space; str.index raises ValueError if it has none.
IsDigit(c) == c \in {"0", "1", "2", "3", "4", "5", "6", "7", "8", "9"}

\* str.index(title, ' '), counted from 1; 0 where Python raises ValueError.
IndexOfSpace(title) ==
    IF \E k \in 1..Len(title) : title[k] = " "
    THEN CHOOSE k \in 1..Len(title) :
             title[k] = " " /\ \A j \in 1..(k - 1) : title[j] /= " "
    ELSE 0

strip_section_numbers(title) ==
    IF title /= <<>> /\ IsDigit(title[1])
    THEN IF IndexOfSpace(title) = 0
         THEN [raised |-> TRUE, num |-> <<>>, title |-> title]
         ELSE [raised |-> FALSE,
               num    |-> SubSeq(title, 1, IndexOfSpace(title) - 1),
               title  |-> SubSeq(title, IndexOfSpace(title) + 1, Len(title))]
    ELSE [raised |-> FALSE, num |-> <<>>, title |-> title]

\* Bookmap.convert: one module per row, in the order of the rows.
convert(rows) ==
    [i \in 1..Len(rows) |->
        LET split == strip_section_numbers(rows[i].module_title)
        IN  CNXModule(split.title, split.num, rows[i])]

\* Bookmap.convert of a manifest whose i-th row has the title of row i.
convert_modules(rows) ==
    convert([i \in 1..Len(rows) |-> ("module_title" :> TitleOfRow(i)) @@ rows[i]])

\* Bookmap.convert: one workgroup per chapter of the active chapter set.
convert_workgroups(chs, enabled) ==
    IF enabled THEN [i \in 1..Len(chs) |-> Workgroup(chs[i])] ELSE <<>>

\* BookmapData.output: the cells of the row of module m.
output(m, units) ==
    (IF units THEN <<m.unit_number, m.unit_title>> ELSE <<>>) \o
    << m.chapter_number,
       m.chapter_title,
       IF m.section_number /= <<>> THEN m.section_number \o <<" ">> \o m.title
       ELSE m.title,
       m.source_id,
       m.destination_id,
       m.destination_workspace_url >>

\* A save that leaves the invalid modules out.
save_rows_valid_only(mods, units) ==
    << (IF units THEN << <<"unit_number">>, <<"unit_title">> >> ELSE <<>>) \o
       << <<"chapter_number">>, <<"chapter_title">>, <<"module_title">>,
          <<"source_id">>, <<"destination_id">>,
          <<"destination_workspace_url">> >> >>
    \o [i \in 1..Len(SelectSeq(mods, LAMBDA m : m.valid)) |->
           output(SelectSeq(mods, LAMBDA m : m.valid)[i], units)]

\* Bookmap.save: the header line, then one row per module.  A column is named
\* after the module attribute the configuration reads it into.
save_rows(mods, units) ==
    << (IF units THEN << <<"unit_number">>, <<"unit_title">> >> ELSE <<>>) \o
       << <<"chapter_number">>, <<"chapter_title">>, <<"module_title">>,
          <<"source_id">>, <<"destination_id">>,
          <<"destination_workspace_url">> >> >>
    \o [i \in 1..Len(mods) |-> output(mods[i], units)]

NoFile == <<>>

(***************************************************************************)
(* The state of one run.                                                   *)
(***************************************************************************)
VARIABLES
    pc,                   \* the position of run()
    run_options,          \* RunOptions; its chapters is the list object that
                          \* bookmap.chapters also names
    chapters,             \* bookmap.chapters
    modules,              \* bookmap.bookmap.modules (= copier.copy_map.modules)
    workgroups,           \* bookmap.bookmap.workgroups: a list of workgroup objects
    wg,                   \* the workgroup objects, by identity
    chapter_to_workgroup, \* the dict of create_placeholders
    wg_i,                 \* list iterator of the workgroup loop (items consumed)
    mod_i,                \* list iterator of the module loop
    collection,           \* the root collection (0: None)
    as_list,              \* the sorted (unit number, unit title) pairs
    unit_i,               \* iterator of the unit loop
    units_map,            \* unit number -> unit subcollection
    colls,                \* the collections created on the destination
    attached,             \* the (module, parent collection) attachments made
    cwg_i,                \* iterator of the workgroup loop of the collection stage
    pub_i,                \* iterator of the post-copy publish loop
    failures,             \* the failure list of run()
    printed,              \* the failure lines print_failures has written
    files,                \* the manifest read and the manifests written by Bookmap.save
    escaped,              \* the exception that has left the try block of run()
    ops                   \* history: the calls made to the collaborators and Bookmap.save

vars == << pc, run_options, chapters, modules, workgroups, wg, chapter_to_workgroup,
           wg_i, mod_i, collection, as_list, unit_i, units_map, colls, attached,
           cwg_i, pub_i, failures, printed, files, escaped, ops >>

\* A string literal of the program, kept as one token.
Lit(s) == <<s>>

Failure(entity, phase) == [entity |-> entity, phase |-> phase]

\* A call: its stage, its target, whether it returned ("ok") or raised, and
\* the number of failures met in it.
OpN(stage, name, mod, ch, outcome, n) ==
    [stage |-> stage, op |-> name, mod |-> mod, ch |-> ch,
     result |-> IF outcome = "ok" THEN "ok" ELSE "failed",
     faults |-> n,
     dryrun |-> run_options.dryrun]

Op(stage, name, mod, ch, outcome) ==
    OpN(stage, name, mod, ch, outcome, IF outcome = "ok" THEN 0 ELSE 1)

(***************************************************************************)
(* main() and the constructors called at the start of run(): the state at   *)
(* the confirmation prompt.                                                *)
(***************************************************************************)
Init ==
    \E rows \in Manifests, args \in ChapterArgs, flags \in [FlagNames -> BOOLEAN] :
        LET include  == SortStrings(args.chapters)   \* main: args.chapters.sort()
            resolved == ResolveChapters(rows, include, args.exclude)
        IN  /\ pc = "confirm"
            /\ chapters = resolved
            /\ run_options = [ modules            |-> flags["modules"],
                               workgroups         |-> flags["workgroups"],
                               copy               |-> flags["copy"],
                               accept_roles       |-> flags["accept_roles"],
                               collections        |-> flags["collections"],
                               units              |-> flags["units"],
                               publish            |-> flags["publish"],
                               publish_collection |-> flags["publish_collection"],
                               dryrun             |-> flags["dryrun"],
                               chapters           |-> resolved,
                               exclude            |-> args.exclude ]
            /\ modules = convert_modules(rows)
            /\ wg = convert_workgroups(resolved, flags["workgroups"])
            /\ workgroups = [i \in 1..Len(wg) |-> i]
            /\ chapter_to_workgroup = <<>>
            /\ wg_i = 0
            /\ mod_i = 0
            /\ collection = 0
            /\ as_list = <<>>
            /\ unit_i = 0
            /\ units_map = <<>>
            /\ colls = <<>>
            /\ attached = <<>>
            /\ cwg_i = 0
            /\ pub_i = 0
            /\ failures = <<>>
            /\ printed = <<>>
            /\ files = [input |-> rows, output |-> NoFile, error |-> NoFile]
            /\ escaped = "none"
            /\ ops = <<>>

(***************************************************************************)
(* The collaborators (ContentCreator, Copier, RoleUpdater).  A call either *)
(* returns, raises the domain error CCTError, or raises another exception; *)
(* with dryrun set no remote request is made and the call returns.         *)
(***************************************************************************)
\* The failures the collaborators have met so far.
RECURSIVE SumFaults(_, _)
SumFaults(s, k) == IF k > Len(s) THEN 0 ELSE s[k].faults + SumFaults(s, k + 1)

FaultCount == SumFaults(ops, 1)

RemoteOutcomes(dryrun) ==
    IF dryrun \/ FaultCount >= MaxFaults THEN {"ok"} ELSE {"ok", "CCTError", "Exception"}

\* The identifier the destination gives the placeholder of module i.
NewModuleId(i) == <<"m", CASE i = 1 -> "1" [] i = 2 -> "2" [] OTHER -> "3">>

\* The url a module is created under: 'Members/' or the url of its workgroup.
WorkgroupUrl(ch, with_workgroup) ==
    IF with_workgroup THEN <<"w", "g">> \o ch ELSE <<"M">>

(***************************************************************************)
(* run(): the try block runs the stages in this order, each behind its     *)
(* flag; an exception leaves the block, through the handler if it is a     *)
(* CCTError and out of run() otherwise.                                    *)
(***************************************************************************)
\* A run() that copies before it creates the placeholders.
run_body_copy_first == <<"copy", "placeholders", "roles", "collection", "publish">>

run_body == <<"placeholders", "copy", "roles", "collection", "publish">>

\* A run() that enters the placeholder stage for workgroups only.
StageEnabledWithoutModules(stage, ro) ==
    CASE stage = "placeholders" -> ro.workgroups
      [] stage = "copy"         -> ro.copy
      [] stage = "roles"        -> ro.accept_roles /\ ~ro.dryrun
      [] stage = "collection"   -> ro.collections
      [] stage = "publish"      -> ro.publish

\* A run() that accepts the pending roles in a dry run too.
StageEnabledRolesInDryRun(stage, ro) ==
    CASE stage = "placeholders" -> ro.modules \/ ro.workgroups
      [] stage = "copy"         -> ro.copy
      [] stage = "roles"        -> ro.accept_roles
      [] stage = "collection"   -> ro.collections
      [] stage = "publish"      -> ro.publish

StageEnabled(stage, ro) ==
    CASE stage = "placeholders" -> ro.modules \/ ro.workgroups
      [] stage = "copy"         -> ro.copy
      [] stage = "roles"        -> ro.accept_roles /\ ~ro.dryrun
      [] stage = "collection"   -> ro.collections
      [] stage = "publish"      -> ro.publish

\* Where a stage starts.
StageEntry(stage, ro) ==
    CASE stage = "placeholders" -> "create_placeholders"
      [] stage = "copy"         -> "copy"
      [] stage = "roles"        -> "roles"
      [] stage = "collection"   -> "create_collection"
      [] stage = "publish"      -> "publish"

RECURSIVE FirstEnabledFrom(_, _)
FirstEnabledFrom(k, ro) ==
    IF k > Len(run_body) THEN "report"
    ELSE IF StageEnabled(run_body[k], ro) THEN StageEntry(run_body[k], ro)
    ELSE FirstEnabledFrom(k + 1, ro)

AfterStage(stage, ro) ==
    FirstEnabledFrom(1 + CHOOSE k \in 1..Len(run_body) : run_body[k] = stage, ro)

\* A run() without its except clause.
RaiseUncaught(kind) == "crashed"

\* An exception that reaches the try block of run().
Raise(kind) == IF kind = "CCTError" THEN "handler" ELSE "crashed"

(***************************************************************************)
(* user_confirm: "1" proceeds, "2" exits the process, anything else asks   *)
(* again.                                                                  *)
(***************************************************************************)
\* A prompt whose cancel returns to run() instead of leaving the process.
user_confirm_cancel_returns(var, ro) ==
    CASE var = "1" -> FirstEnabledFrom(1, ro)
      [] var = "2" -> FirstEnabledFrom(1, ro)
      [] OTHER     -> "confirm"

\* Where the answer var takes the run.
user_confirm(var, ro) ==
    CASE var = "1" -> FirstEnabledFrom(1, ro)
      [] var = "2" -> "exited"
      [] OTHER     -> "confirm"

UserConfirm ==
    /\ pc = "confirm"
    /\ \E var \in {"1", "2", "x"} : pc' = user_confirm(var, run_options)
    /\ UNCHANGED << run_options, chapters, modules, workgroups, wg, chapter_to_workgroup,
                    wg_i, mod_i, collection, as_list, unit_i, units_map, colls,
                    attached, cwg_i, pub_i, failures, printed, files, escaped, ops >>

(***************************************************************************)
(* create_placeholders, the workgroup loop: one iteration.                 *)
(***************************************************************************)
\* The failure records the handler appends, in module order.
RECURSIVE CascadeFailures(_, _, _)
CascadeFailures(mods, same, i) ==
    IF i > Len(mods) THEN <<>>
    ELSE (IF same[i] THEN <<Failure(full_title(mods[i]), " creating placeholder")>>
          ELSE <<>>) \o CascadeFailures(mods, same, i + 1)

\* A handler that marks every module of the manifest.
CascadeInvalidateAll(mods, same) ==
    [i \in 1..Len(mods) |-> [mods[i] EXCEPT !.valid = FALSE]]

\* The modules the handler finds to be of the failed workgroup's chapter.
CascadeInvalidate(mods, same) ==
    [i \in 1..Len(mods) |-> IF same[i] THEN [mods[i] EXCEPT !.valid = FALSE] ELSE mods[i]]

\* A Bookmap that hands the run options a copy of its chapter list.
RunOptionsChaptersCopied(bookmap_chapters, own) == own

\* Bookmap.__init__: run_options.chapters = self.chapters binds the run
\* options to the list object the Bookmap holds, so that the run options see
\* what is later removed from it.
RunOptionsChapters(bookmap_chapters, own) == bookmap_chapters

\* The list after `for x in list` has removed the item it is at.
WorkgroupsAfterFailure(list, w) == RemoveFirst(list, w)

\* Whether create_placeholders is past its workgroup loop.
WorkgroupsDone == ~run_options.workgroups \/ wg_i >= Len(workgroups)

CreateWorkgroup ==
    /\ pc = "create_placeholders"
    /\ ~WorkgroupsDone
    /\ LET w  == workgroups[wg_i + 1]
           ch == wg[w].chapter_number
       IN  \E outcome \in RemoteOutcomes(run_options.dryrun) :
             /\ ops' = Append(ops, Op(1, "create_workgroup", 0, ch, outcome))
             /\ IF outcome = "ok"
                THEN /\ pc' = pc
                     /\ UNCHANGED << chapters, run_options, workgroups, modules, failures,
                                     escaped >>
                ELSE IF ch \notin Range(chapters)
                THEN \* list.remove raises ValueError inside the handler
                     /\ pc' = Raise("ValueError")
                     /\ escaped' = "ValueError"
                     /\ UNCHANGED << chapters, run_options, workgroups, modules, failures >>
                ELSE \E same \in [1..Len(modules) -> BOOLEAN] :
                     /\ \A i \in 1..Len(modules) :
                            same[i] \in IsOutcomes(modules[i].chapter_number, ch)
                     /\ pc' = pc
                     /\ escaped' = escaped
                     /\ chapters' = RemoveFirst(chapters, ch)
                     /\ run_options' = [run_options EXCEPT
                                           !.chapters = RunOptionsChapters(chapters', @)]
                     /\ workgroups' = WorkgroupsAfterFailure(workgroups, w)
                     /\ modules' = CascadeInvalidate(modules, same)
                     /\ failures' = failures \o CascadeFailures(modules, same, 1)
             /\ chapter_to_workgroup' =
                    IF pc' = "crashed" THEN chapter_to_workgroup
                    ELSE [c \in (DOMAIN chapter_to_workgroup) \cup {ch} |->
                             IF c = ch THEN w ELSE chapter_to_workgroup[c]]
             /\ wg_i' = wg_i + 1
    /\ UNCHANGED << wg, mod_i, collection, as_list, unit_i, units_map, colls, attached,
                    cwg_i, pub_i, printed, files >>

(***************************************************************************)
(* create_placeholders, the module loop: one iteration.                    *)
(***************************************************************************)
\* A workgroup that puts a new member in front of the others.
add_module_first(members, module) == <<module>> \o members

\* Workspace.add_module
add_module(members, module) == Append(members, module)

\* A loop that places the valid modules of every chapter.
PlaceholderFilterAnyChapter(m, chs) == m.valid

\* if module.valid and module.chapter_number in bookmap.chapters
PlaceholderFilter(m, chs) == m.valid /\ m.chapter_number \in Range(chs)

CreateModule ==
    /\ pc = "create_placeholders"
    /\ WorkgroupsDone
    /\ mod_i < Len(modules)
    /\ LET i  == mod_i + 1
           m  == modules[i]
           ch == m.chapter_number
       IN  IF ~PlaceholderFilter(m, chapters)
           THEN /\ mod_i' = mod_i + 1
                /\ UNCHANGED << pc, modules, wg, failures, escaped, ops >>
           ELSE IF run_options.workgroups /\ ch \notin DOMAIN chapter_to_workgroup
           THEN \* chapter_to_workgroup[...] raises KeyError outside the try
                /\ pc' = Raise("KeyError")
                /\ escaped' = "KeyError"
                /\ UNCHANGED << mod_i, modules, wg, failures, ops >>
           ELSE \E outcome \in RemoteOutcomes(run_options.dryrun) :
                /\ ops' = Append(ops, Op(1, "create_module", i, ch, outcome))
                /\ mod_i' = mod_i + 1
                /\ pc' = pc
                /\ escaped' = escaped
                /\ IF outcome = "ok"
                   THEN /\ modules' =
                              IF run_options.dryrun THEN modules
                              ELSE [modules EXCEPT
                                      ![i].destination_id = NewModuleId(i),
                                      ![i].destination_workspace_url =
                                          WorkgroupUrl(ch, run_options.workgroups)]
                        /\ wg' = IF run_options.workgroups
                                 THEN [wg EXCEPT
                                         ![chapter_to_workgroup[ch]].modules = add_module(@, i),
                                         ![chapter_to_workgroup[ch]].unit_number = m.unit_number]
                                 ELSE wg
                        /\ failures' = failures
                   ELSE /\ modules' = [modules EXCEPT ![i].valid = FALSE]
                        /\ failures' = Append(failures,
                                              Failure(full_title(m), " creating placeholder"))
                        /\ wg' = wg
    /\ UNCHANGED << run_options, chapters, workgroups, chapter_to_workgroup, wg_i,
                    collection, as_list, unit_i, units_map, colls, attached, cwg_i,
                    pub_i, printed, files >>

\* create_placeholders returns; run(): output = bookmap.save(run_options.units)
SaveOutput ==
    /\ pc = "create_placeholders"
    /\ WorkgroupsDone
    /\ mod_i >= Len(modules)
    /\ files' = [files EXCEPT !.output = save_rows(modules, run_options.units)]
    /\ ops' = Append(ops, Op(1, "save_output", 0, <<>>, "ok"))
    /\ pc' = AfterStage("placeholders", run_options)
    /\ UNCHANGED << run_options, chapters, modules, workgroups, wg, chapter_to_workgroup,
                    wg_i, mod_i, collection, as_list, unit_i, units_map, colls,
                    attached, cwg_i, pub_i, failures, printed, escaped >>

(***************************************************************************)
(* Copier.copy_content and RoleUpdater.accept_roles: a copy that fails     *)
(* invalidates its module and is reported into the failure list; either    *)
(* call may end in a CCTError that reaches run().                          *)
(***************************************************************************)
RECURSIVE ModuleFailures(_, _, _, _)
ModuleFailures(mods, F, phase, i) ==
    IF i > Len(mods) THEN <<>>
    ELSE (IF i \in F THEN <<Failure(full_title(mods[i]), phase)>> ELSE <<>>)
         \o ModuleFailures(mods, F, phase, i + 1)

Invalidate(mods, F) ==
    [i \in 1..Len(mods) |-> IF i \in F THEN [mods[i] EXCEPT !.valid = FALSE] ELSE mods[i]]

Eligible(mods, chs) ==
    {i \in 1..Len(mods) : mods[i].valid /\ mods[i].chapter_number \in Range(chs)}

CopyContent ==
    /\ pc = "copy"
    /\ \E F \in SUBSET Eligible(modules, run_options.chapters),
          outcome \in {"ok", "CCTError"} :
          /\ LET n == Cardinality(F) + (IF outcome = "ok" THEN 0 ELSE 1)
             IN  /\ n > 0 => ~run_options.dryrun /\ FaultCount + n <= MaxFaults
                 /\ ops' = Append(ops, OpN(2, "copy_content", 0, <<>>, outcome, n))
          /\ modules' = Invalidate(modules, F)
          /\ failures' = failures \o ModuleFailures(modules, F, " copying content", 1)
          /\ pc' = IF outcome = "ok" THEN AfterStage("copy", run_options)
                   ELSE Raise(outcome)
          /\ escaped' = IF outcome = "ok" THEN escaped ELSE outcome
    /\ UNCHANGED << run_options, chapters, workgroups, wg, chapter_to_workgroup, wg_i,
                    mod_i, collection, as_list, unit_i, units_map, colls, attached,
                    cwg_i, pub_i, printed, files >>

AcceptRoles ==
    /\ pc = "roles"
    /\ \E outcome \in IF FaultCount < MaxFaults THEN {"ok", "failed", "CCTError"}
                        ELSE {"ok"} :
          /\ ops' = Append(ops, Op(3, "accept_roles", 0, <<>>, outcome))
          /\ failures' = IF outcome = "failed"
                         THEN Append(failures, Failure(Lit("accepting roles"), ""))
                         ELSE failures
          /\ pc' = IF outcome = "CCTError" THEN Raise(outcome)
                   ELSE AfterStage("roles", run_options)
          /\ escaped' = IF outcome = "CCTError" THEN outcome ELSE escaped
    /\ UNCHANGED << run_options, chapters, modules, workgroups, wg, chapter_to_workgroup,
                    wg_i, mod_i, collection, as_list, unit_i, units_map, colls,
                    attached, cwg_i, pub_i, printed, files >>

(***************************************************************************)
(* create_populate_and_publish_collection.                                 *)
(***************************************************************************)
UnitPairs(mods, chs) ==
    { <<mods[i].unit_number, mods[i].unit_title>> :
        i \in {j \in 1..Len(mods) : /\ mods[j].chapter_number \in Range(chs)
                                    /\ mods[j].unit_number /= APPENDIX
                                    /\ mods[j].unit_number /= <<>>} }

\* list(set) sorted by unit number: pairs of one unit number in any order.
UnitOrders(S) ==
    { s \in [1..Cardinality(S) -> S] :
        /\ \A i, j \in 1..Cardinality(S) : i /= j => s[i] /= s[j]
        /\ \A i, j \in 1..Cardinality(S) : i < j => ~StrLess(s[j][1], s[i][1]) }

\* Whether a workgroup gets a chapter subcollection of its own.
Nested(w) ==
    /\ w.chapter_number /= <<"0">>
    /\ w.unit_number /= APPENDIX
    /\ w.unit_number /= <<>>

CreateCollection ==
    /\ pc = "create_collection"
    /\ \E outcome \in RemoteOutcomes(FALSE),
          order \in UnitOrders(UnitPairs(modules, chapters)) :
          /\ run_options.dryrun => outcome = "ok"
          /\ ops' = IF run_options.dryrun THEN ops
                    ELSE Append(ops, Op(4, "create_collection", 0, <<>>, outcome))
          /\ IF outcome = "ok"
             THEN /\ collection' = IF run_options.dryrun THEN 0 ELSE Len(colls) + 1
                  /\ colls' = IF run_options.dryrun THEN colls
                              ELSE Append(colls, [kind |-> "root", parent |-> 0,
                                                  unit |-> <<>>, title |-> <<>>,
                                                  ch |-> <<>>])
                  /\ as_list' = IF run_options.units THEN order ELSE <<>>
                  /\ failures' = failures
                  /\ pc' = "populate_collection"
             ELSE /\ failures' = Append(failures, Failure(Lit("creating collection"), ""))
                  /\ pc' = AfterStage("collection", run_options)
                  /\ UNCHANGED << collection, colls, as_list >>
    /\ UNCHANGED << run_options, chapters, modules, workgroups, wg, chapter_to_workgroup,
                    wg_i, mod_i, unit_i, units_map, attached, cwg_i, pub_i, printed,
                    files, escaped >>

\* One call of add_subcollections for a unit; the call is in no try block.
\* Whether the stage is past its loop over the units.
UnitsDone == ~run_options.units \/ run_options.dryrun \/ unit_i >= Len(as_list)

AddUnit ==
    /\ pc = "populate_collection"
    /\ ~UnitsDone
    /\ LET pair == as_list[unit_i + 1]
       IN  \E outcome \in RemoteOutcomes(FALSE) :
             /\ ops' = Append(ops, Op(4, "add_unit_subcollection", 0, pair[1], outcome))
             /\ IF outcome = "ok"
                THEN /\ colls' = Append(colls, [kind |-> "unit", parent |-> collection,
                                                unit |-> pair[1], title |-> pair[2],
                                                ch |-> <<>>])
                     /\ units_map' = [u \in (DOMAIN units_map) \cup {pair[1]} |->
                                         IF u = pair[1] THEN Len(colls) + 1
                                         ELSE units_map[u]]
                     /\ unit_i' = unit_i + 1
                     /\ pc' = pc
                     /\ escaped' = escaped
                ELSE /\ pc' = Raise(outcome)
                     /\ escaped' = outcome
                     /\ UNCHANGED << colls, units_map, unit_i >>
    /\ UNCHANGED << run_options, chapters, modules, workgroups, wg, chapter_to_workgroup,
                    wg_i, mod_i, collection, as_list, attached, cwg_i, pub_i, failures,
                    printed, files >>

\* ContentCreator.add_modules_to_collection: the attachments of the modules
\* in F fail; each is reported into the failure list and the others are made.
RECURSIVE Attachments(_, _, _)
Attachments(members, F, parent) ==
    IF members = <<>> THEN <<>>
    ELSE (IF Head(members) \in F THEN <<>>
          ELSE << [mod |-> Head(members), parent |-> parent] >>)
         \o Attachments(Tail(members), F, parent)

\* One iteration of the loop over the workgroups.
AddWorkgroupToCollection ==
    /\ pc = "populate_collection"
    /\ UnitsDone
    /\ cwg_i < Len(workgroups)
    /\ LET w == wg[workgroups[cwg_i + 1]]
           under_unit == /\ run_options.units
                         /\ w.chapter_number /= <<"0">>
                         /\ w.unit_number /= APPENDIX
                         /\ w.unit_number /= <<>>
       IN  IF ~(w.chapter_number \in Range(chapters)) \/ run_options.dryrun
           THEN /\ cwg_i' = cwg_i + 1
                /\ UNCHANGED << pc, colls, attached, failures, modules, escaped, ops >>
           ELSE IF under_unit /\ w.unit_number \notin DOMAIN units_map
           THEN \* units_map[...] raises KeyError outside the try
                /\ pc' = Raise("KeyError")
                /\ escaped' = "KeyError"
                /\ UNCHANGED << cwg_i, colls, attached, failures, modules, ops >>
           ELSE LET parent == IF under_unit THEN units_map[w.unit_number] ELSE collection
                IN  \E outcome \in RemoteOutcomes(FALSE),
                       F \in SUBSET Range(w.modules) :
                      /\ ~Nested(w) => outcome = "ok"
                      /\ escaped' = escaped
                      /\ outcome /= "ok" => F = {}
                      /\ FaultCount + Cardinality(F) <= MaxFaults
                      /\ IF outcome /= "ok"
                         THEN /\ ops' = Append(ops, Op(4, "add_chapter_subcollection", 0,
                                                       w.chapter_number, outcome))
                              /\ failures' = Append(failures,
                                                    Failure(Lit("creating subcollections"), ""))
                              /\ pc' = AfterStage("collection", run_options)
                              /\ UNCHANGED << cwg_i, colls, attached, modules >>
                         ELSE LET module_parent == IF Nested(w) THEN Len(colls) + 1
                                                   ELSE collection
                              IN  /\ ops' = ops
                                        \o (IF Nested(w)
                                            THEN << Op(4, "add_chapter_subcollection", 0,
                                                       w.chapter_number, "ok") >>
                                            ELSE <<>>)
                                        \o << OpN(4, "add_modules_to_collection", 0,
                                                  w.chapter_number, "ok",
                                                  Cardinality(F)) >>
                                  /\ colls' = IF Nested(w)
                                              THEN Append(colls,
                                                     [kind |-> "chapter", parent |-> parent,
                                                      unit |-> w.unit_number,
                                                      title |-> <<>>,
                                                      ch |-> w.chapter_number])
                                              ELSE colls
                                  /\ attached' = attached
                                        \o Attachments(w.modules, F, module_parent)
                                  /\ failures' = failures
                                        \o ModuleFailures(modules, F, " adding to collection", 1)
                                  /\ modules' = Invalidate(modules, F)
                                  /\ cwg_i' = cwg_i + 1
                                  /\ pc' = pc
    /\ UNCHANGED << run_options, chapters, workgroups, wg, chapter_to_workgroup, wg_i,
                    mod_i, collection, as_list, unit_i, units_map, pub_i, printed, files >>

\* A stage that publishes the collection in a dry run too.
ShouldPublishCollectionInDryRun(dry_run, publish_collection) == publish_collection

\* if not dry_run and publish_collection
ShouldPublishCollection(dry_run, publish_collection) == ~dry_run /\ publish_collection

\* After the loops: publish the root collection if asked to, and return.
PublishCollection ==
    /\ pc = "populate_collection"
    /\ UnitsDone
    /\ cwg_i >= Len(workgroups)
    /\ IF ShouldPublishCollection(run_options.dryrun, run_options.publish_collection)
       THEN \E outcome \in RemoteOutcomes(FALSE) :
              /\ ops' = Append(ops, Op(4, "publish_collection", 0, <<>>, outcome))
              /\ failures' = IF outcome = "ok" THEN failures
                             ELSE Append(failures,
                                         Failure(Lit("publishing collection"), ""))
       ELSE UNCHANGED << ops, failures >>
    /\ pc' = AfterStage("collection", run_options)
    /\ UNCHANGED << run_options, chapters, modules, workgroups, wg, chapter_to_workgroup,
                    wg_i, mod_i, collection, as_list, unit_i, units_map, colls,
                    attached, cwg_i, pub_i, printed, files, escaped >>

(***************************************************************************)
(* publish_modules_post_copy: one iteration.                               *)
(***************************************************************************)
\* A loop that publishes invalid modules too.
PublishFilterIgnoringValid(m) == m.chapter_number \in Range(run_options.chapters)

\* The modules the loop publishes.
PublishFilter(m) == m.valid /\ m.chapter_number \in Range(run_options.chapters)

PublishModule ==
    /\ pc = "publish"
    /\ pub_i < Len(modules)
    /\ LET i == pub_i + 1
           m == modules[i]
       IN  IF ~PublishFilter(m) \/ run_options.dryrun
           THEN UNCHANGED << modules, failures, ops >>
           ELSE \E outcome \in RemoteOutcomes(FALSE) :
                  /\ ops' = Append(ops, Op(5, "publish_module", i, m.chapter_number, outcome))
                  /\ IF outcome = "ok"
                     THEN UNCHANGED << modules, failures >>
                     ELSE /\ modules' = [modules EXCEPT ![i].valid = FALSE]
                          /\ failures' = Append(failures,
                                                Failure(full_title(m), "publishing module"))
    /\ pub_i' = pub_i + 1
    /\ UNCHANGED << pc, run_options, chapters, workgroups, wg, chapter_to_workgroup, wg_i,
                    mod_i, collection, as_list, unit_i, units_map, colls, attached,
                    cwg_i, printed, files, escaped >>

EndPublish ==
    /\ pc = "publish"
    /\ pub_i >= Len(modules)
    /\ pc' = AfterStage("publish", run_options)
    /\ UNCHANGED << run_options, chapters, modules, workgroups, wg, chapter_to_workgroup,
                    wg_i, mod_i, collection, as_list, unit_i, units_map, colls,
                    attached, cwg_i, pub_i, failures, printed, files, escaped, ops >>

(***************************************************************************)
(* run(): the CCTError handler and the end of run().                       *)
(***************************************************************************)
HandleCCTError ==
    /\ pc = "handler"
    /\ files' = [files EXCEPT !.error = save_rows(modules, run_options.units)]
    /\ ops' = Append(ops, Op(6, "save_error", 0, <<>>, "ok"))
    /\ pc' = "report"
    /\ UNCHANGED << run_options, chapters, modules, workgroups, wg, chapter_to_workgroup,
                    wg_i, mod_i, collection, as_list, unit_i, units_map, colls,
                    attached, cwg_i, pub_i, failures, printed, escaped >>

\* print_failures and "Process completed".
Report ==
    /\ pc = "report"
    /\ printed' = failures
    /\ pc' = "done"
    /\ UNCHANGED << run_options, chapters, modules, workgroups, wg, chapter_to_workgroup,
                    wg_i, mod_i, collection, as_list, unit_i, units_map, colls,
                    attached, cwg_i, pub_i, failures, files, escaped, ops >>

Next ==
    \/ UserConfirm
    \/ CreateWorkgroup
    \/ CreateModule
    \/ SaveOutput
    \/ CopyContent
    \/ AcceptRoles
    \/ CreateCollection
    \/ AddUnit
    \/ AddWorkgroupToCollection
    \/ PublishCollection
    \/ PublishModule
    \/ EndPublish
    \/ HandleCCTError
    \/ Report

Spec == Init /\ [][Next]_vars

(***************************************************************************)
(* The Bookmap on its own: main() hands the parsed arguments to             *)
(* Bookmap.__init__, which resolves the chapter set and reads the manifest; *)
(* Bookmap.save writes the manifest, and a later run reads what was saved.  *)
(* A row of a manifest is given by its non-empty cells.                     *)
(***************************************************************************)
\* The length of the include list and of the exclude list.
MaxChapters == 2

BookChapterNumbers == {<<"1">>, <<"2">>, <<"1", "0">>}

\* A row with every column, one with the mandatory columns only, one placed
\* by an earlier run, and one whose title is a number without a space.
BookRows ==
    { [ module_title         |-> <<"1", ".", "1", " ", "A">>,
        chapter_number       |-> <<"1">>,
        chapter_title        |-> <<"C">>,
        source_workspace_url |-> <<"w", "s">>,
        source_id            |-> <<"s", "1">>,
        unit_number          |-> <<"1">>,
        unit_title           |-> <<"U">> ],
      [ module_title   |-> <<"B">>,
        chapter_number |-> <<"2">> ],
      [ module_title              |-> <<"P">>,
        chapter_number            |-> <<"1", "0">>,
        destination_id            |-> <<"m", "0">>,
        destination_workspace_url |-> <<"w", "g">> ],
      [ module_title   |-> <<"4", "2">>,
        chapter_number |-> <<"2">> ] }

BookManifests == UNION {[1..n -> BookRows] : n \in 0..MaxRows}

ChapterLists == UNION {[1..n -> BookChapterNumbers] : n \in 0..MaxChapters}

\* The state in main() once the RunOptions are made (the include list sorted).
InitBookmap ==
    \E rows \in BookManifests, include \in ChapterLists, exclude \in ChapterLists,
       units \in BOOLEAN, with_workgroups \in BOOLEAN :
        /\ pc = "main"
        /\ run_options = [ modules            |-> FALSE,
                           workgroups         |-> with_workgroups,
                           copy               |-> FALSE,
                           accept_roles       |-> FALSE,
                           collections        |-> FALSE,
                           units              |-> units,
                           publish            |-> FALSE,
                           publish_collection |-> FALSE,
                           dryrun             |-> FALSE,
                           chapters           |-> SortStrings(include),
                           exclude            |-> exclude ]
        /\ files = [input |-> rows, output |-> NoFile, error |-> NoFile]
        /\ chapters = <<>>
        /\ modules = <<>>
        /\ wg = <<>>
        /\ workgroups = <<>>
        /\ chapter_to_workgroup = <<>>
        /\ wg_i = 0
        /\ mod_i = 0
        /\ collection = 0
        /\ as_list = <<>>
        /\ unit_i = 0
        /\ units_map = <<>>
        /\ colls = <<>>
        /\ attached = <<>>
        /\ cwg_i = 0
        /\ pub_i = 0
        /\ failures = <<>>
        /\ printed = <<>>
        /\ escaped = "none"
        /\ ops = <<>>

\* csv.DictReader: each data row as a map from the column titles of the
\* first line to the cells of the row.
DictReader(file) ==
    [i \in 1..(Len(file) - 1) |->
        [c \in {file[1][j][1] : j \in 1..Len(file[1])} |->
            file[i + 1][CHOOSE j \in 1..Len(file[1]) : file[1][j][1] = c]]]

\* Bookmap.__init__: the chapter set, then read_csv.
Bookmap_init ==
    /\ pc = "main"
    /\ chapters' = ResolveChapters(files.input, run_options.chapters, run_options.exclude)
    /\ run_options' = [run_options EXCEPT !.chapters = RunOptionsChapters(chapters', @)]
    /\ IF \E i \in 1..Len(files.input) :
              strip_section_numbers(files.input[i].module_title).raised
       THEN /\ pc' = "crashed"
            /\ escaped' = "ValueError"
            /\ UNCHANGED << modules, wg, workgroups >>
       ELSE /\ pc' = "constructed"
            /\ escaped' = escaped
            /\ modules' = convert(files.input)
            /\ wg' = convert_workgroups(chapters', run_options.workgroups)
            /\ workgroups' = [i \in 1..Len(wg') |-> i]
    /\ UNCHANGED << chapter_to_workgroup, wg_i, mod_i, collection, as_list, unit_i,
                    units_map, colls, attached, cwg_i, pub_i, failures, printed,
                    files, ops >>

\* Bookmap.save(units, error).
Bookmap_save ==
    /\ pc = "constructed"
    /\ \E error \in BOOLEAN :
          files' = IF error
                   THEN [files EXCEPT !.error = save_rows(modules, run_options.units)]
                   ELSE [files EXCEPT !.output = save_rows(modules, run_options.units)]
    /\ pc' = "saved"
    /\ UNCHANGED << run_options, chapters, modules, workgroups, wg, chapter_to_workgroup,
                    wg_i, mod_i, collection, as_list, unit_i, units_map, colls,
                    attached, cwg_i, pub_i, failures, printed, escaped, ops >>

\* Bookmap.read_csv of the saved manifest, with the same column configuration.
Bookmap_read_csv ==
    /\ pc = "saved"
    /\ \E saved \in {files.output, files.error} \ {NoFile} :
          modules' = convert(DictReader(saved))
    /\ pc' = "reparsed"
    /\ UNCHANGED << run_options, chapters, workgroups, wg, chapter_to_workgroup,
                    wg_i, mod_i, collection, as_list, unit_i, units_map, colls,
                    attached, cwg_i, pub_i, failures, printed, files, escaped, ops >>

NextBookmap ==
    \/ Bookmap_init
    \/ Bookmap_save
    \/ Bookmap_read_csv

SpecBookmap == InitBookmap /\ [][NextBookmap]_vars

(***************************************************************************)
(* A module on its own: CNXModule(title, section_number) for any title and  *)
(* section number, taken through the module loop of create_placeholders     *)
(* (which names it by full_title() when it fails) and through Bookmap.save  *)
(* (which writes its title column).                                        *)
(***************************************************************************)
\* The length of a title and of a section number.
MaxLen == 2

TitleChars == {" ", "1", "A"}

Strings == UNION {[1..n -> TitleChars] : n \in 0..MaxLen}

InitModule ==
    \E title \in Strings, section_number \in Strings, units \in BOOLEAN :
        /\ pc = "create_placeholders"
        /\ run_options = [ modules            |-> TRUE,
                           workgroups         |-> FALSE,
                           copy               |-> FALSE,
                           accept_roles       |-> FALSE,
                           collections        |-> FALSE,
                           units              |-> units,
                           publish            |-> FALSE,
                           publish_collection |-> FALSE,
                           dryrun             |-> FALSE,
                           chapters           |-> << <<"1">> >>,
                           exclude            |-> <<>> ]
        /\ chapters = << <<"1">> >>
        /\ modules = << CNXModule(title, section_number, Row(<<"1">>, <<"1">>)) >>
        /\ files = [input |-> <<>>, output |-> NoFile, error |-> NoFile]
        /\ wg = <<>>
        /\ workgroups = <<>>
        /\ chapter_to_workgroup = <<>>
        /\ wg_i = 0
        /\ mod_i = 0
        /\ collection = 0
        /\ as_list = <<>>
        /\ unit_i = 0
        /\ units_map = <<>>
        /\ colls = <<>>
        /\ attached = <<>>
        /\ cwg_i = 0
        /\ pub_i = 0
        /\ failures = <<>>
        /\ printed = <<>>
        /\ escaped = "none"
        /\ ops = <<>>

NextModule ==
    \/ CreateModule
    \/ SaveOutput
    \/ Report

SpecModule == InitModule /\ [][NextModule]_vars

(***************************************************************************)
(* The collection stage on its own, entered after a placeholder stage in    *)
(* which every workgroup and every module was created, for manifests whose  *)
(* rows name units by number and title.                                    *)
(***************************************************************************)
UnitRow(chapter, unit, title) ==
    [chapter_number |-> chapter, unit_number |-> unit, unit_title |-> title]

\* Two chapters; units "1" (under two titles), "2" and "10", and the appendix.
UnitRows ==
    { UnitRow(ch, u[1], u[2]) :
        ch \in {<<"1">>, <<"2">>},
        u \in { << <<"1">>, <<"U">> >>, << <<"1">>, <<"V">> >>,
                << <<"2">>, <<"U">> >>, << <<"1", "0">>, <<"U">> >>,
                << APPENDIX, <<>> >> } }

UnitManifests == UNION {[1..n -> UnitRows] : n \in 0..MaxRows}

\* The modules as the placeholder stage leaves them when nothing fails.
PlacedModules(rows) ==
    [i \in 1..Len(rows) |->
        [convert_modules(rows)[i] EXCEPT
            !.destination_id = NewModuleId(i),
            !.destination_workspace_url = WorkgroupUrl(rows[i].chapter_number, TRUE)]]

\* The members of the workgroup of chapter ch, in manifest order.
RECURSIVE MembersOf(_, _, _)
MembersOf(rows, ch, i) ==
    IF i > Len(rows) THEN <<>>
    ELSE (IF rows[i].chapter_number = ch THEN <<i>> ELSE <<>>)
         \o MembersOf(rows, ch, i + 1)

\* The workgroups as the placeholder stage leaves them when nothing fails.
PlacedWorkgroups(rows) ==
    [w \in 1..Len(get_chapters(rows)) |->
        LET members == MembersOf(rows, get_chapters(rows)[w], 1)
        IN  [ chapter_number |-> get_chapters(rows)[w],
              unit_number    |-> rows[members[Len(members)]].unit_number,
              modules        |-> members ]]

InitCollection ==
    \E rows \in UnitManifests, publish_collection \in BOOLEAN :
        /\ pc = "create_collection"
        /\ run_options = [ modules            |-> TRUE,
                           workgroups         |-> TRUE,
                           copy               |-> FALSE,
                           accept_roles       |-> FALSE,
                           collections        |-> TRUE,
                           units              |-> TRUE,
                           publish            |-> FALSE,
                           publish_collection |-> publish_collection,
                           dryrun             |-> FALSE,
                           chapters           |-> get_chapters(rows),
                           exclude            |-> <<>> ]
        /\ chapters = get_chapters(rows)
        /\ modules = PlacedModules(rows)
        /\ wg = PlacedWorkgroups(rows)
        /\ workgroups = [i \in 1..Len(wg) |-> i]
        /\ chapter_to_workgroup = [c \in Range(chapters) |->
                                      CHOOSE w \in 1..Len(wg) : wg[w].chapter_number = c]
        /\ wg_i = Len(workgroups)
        /\ mod_i = Len(modules)
        /\ files = [input |-> rows, output |-> save_rows(modules, TRUE), error |-> NoFile]
        /\ ops = [w \in 1..Len(wg) |->
                     Op(1, "create_workgroup", 0, wg[w].chapter_number, "ok")]
                 \o [i \in 1..Len(modules) |->
                        Op(1, "create_module", i, modules[i].chapter_number, "ok")]
                 \o << Op(1, "save_output", 0, <<>>, "ok") >>
        /\ collection = 0
        /\ as_list = <<>>
        /\ unit_i = 0
        /\ units_map = <<>>
        /\ colls = <<>>
        /\ attached = <<>>
        /\ cwg_i = 0
        /\ pub_i = 0
        /\ failures = <<>>
        /\ printed = <<>>
        /\ escaped = "none"

NextCollection ==
    \/ CreateCollection
    \/ AddUnit
    \/ AddWorkgroupToCollection
    \/ PublishCollection
    \/ HandleCCTError
    \/ Report

SpecCollection == InitCollection /\ [][NextCollection]_vars

(***************************************************************************)
(* Properties.                                                             *)
(***************************************************************************)
OpsOf(name) == {k \in 1..Len(ops) : ops[k].op = name}

FailedOpsOf(name) == {k \in OpsOf(name) : ops[k].result = "failed"}

\* The stage run() is in.
PcStage ==
    CASE pc = "confirm"             -> 0
      [] pc = "create_placeholders" -> 1
      [] pc = "copy"                -> 2
      [] pc = "roles"               -> 3
      [] pc = "create_collection"   -> 4
      [] pc = "populate_collection" -> 4
      [] pc = "publish"             -> 5
      [] OTHER                      -> 6

StageFlag(n) ==
    CASE n = 1 -> run_options.modules \/ run_options.workgroups
      [] n = 2 -> run_options.copy
      [] n = 3 -> run_options.accept_roles /\ ~run_options.dryrun
      [] n = 4 -> run_options.collections
      [] n = 5 -> run_options.publish
      [] OTHER -> TRUE

\* C1: the calls of the run are made stage by stage in the order placeholder
\* creation, content copy, role acceptance, collection assembly, post-copy
\* publish: no call of a later stage precedes a call of an earlier stage, none
\* exists while run() is still in an earlier stage, and only enabled stages
\* make calls, whatever the flags are.
C1_StageOrder ==
    /\ \A i, j \in 1..Len(ops) : i < j => ops[i].stage <= ops[j].stage
    /\ \A i \in 1..Len(ops) : ops[i].stage <= PcStage /\ StageFlag(ops[i].stage)

C1_Witness ==
    /\ pc = "done"
    /\ \A n \in 1..5 : \E k \in 1..Len(ops) : ops[k].stage = n

\* C2: at the end of the run, for every chapter number c whose workgroup
\* failed to be created, every module of chapter c is invalid and has a
\* failure record (full title, creating placeholder), and c is not in the
\* active chapter set.
C2_Claim ==
    pc = "done" =>
        \A k \in FailedOpsOf("create_workgroup") :
            /\ ops[k].ch \notin Range(chapters)
            /\ \A i \in 1..Len(modules) :
                   modules[i].chapter_number = ops[k].ch =>
                       /\ ~modules[i].valid
                       /\ Failure(full_title(modules[i]), " creating placeholder")
                              \in Range(failures)

\* C3: once the workgroup loop is over, every workgroup synthesized for the
\* active chapter set has been attempted exactly once.
C3_Claim ==
    ( /\ run_options.workgroups
      /\ pc \notin {"confirm", "exited"}
      /\ pc = "create_placeholders" => wg_i >= Len(workgroups) ) =>
        \A w \in DOMAIN wg :
            Cardinality({k \in OpsOf("create_workgroup") :
                             ops[k].ch = wg[w].chapter_number}) = 1

\* C4: a run in which a workgroup creation failed still ends with the output
\* manifest persisted and with a placeholder attempt for every module of the
\* chapters that remain in the active chapter set.
C4_Claim ==
    (pc \in {"done", "crashed"} /\ FailedOpsOf("create_workgroup") /= {}) =>
        /\ files.output /= NoFile
        /\ \A i \in 1..Len(modules) :
               modules[i].chapter_number \in Range(chapters) =>
                   \E k \in OpsOf("create_module") : ops[k].mod = i

\* C5: each iteration of the module loop of the placeholder stage goes on to
\* the next module; it attempts the module exactly when the module is valid
\* and its chapter is in the active chapter set; a failed attempt invalidates
\* that module and appends exactly one failure record (full title, creating
\* placeholder); no other module's valid flag changes.
C5_Claim ==
    [][ (pc = "create_placeholders" /\ mod_i < Len(modules)
         /\ (run_options.workgroups => wg_i >= Len(workgroups))) =>
        LET i == mod_i + 1
            m == modules[i]
            attempted == m.valid /\ m.chapter_number \in Range(chapters)
        IN  /\ mod_i' = mod_i + 1
            /\ pc' = "create_placeholders"
            /\ \A j \in 1..Len(modules) : j /= i => modules'[j].valid = modules[j].valid
            /\ IF attempted
               THEN /\ Len(ops') = Len(ops) + 1
                    /\ SubSeq(ops', 1, Len(ops)) = ops
                    /\ ops'[Len(ops')].op = "create_module"
                    /\ ops'[Len(ops')].mod = i
                    /\ IF ops'[Len(ops')].result = "ok"
                       THEN modules'[i].valid /\ failures' = failures
                       ELSE /\ ~modules'[i].valid
                            /\ failures' = Append(failures,
                                   Failure(full_title(m), " creating placeholder"))
               ELSE ops' = ops /\ modules' = modules /\ failures' = failures
      ]_vars

\* C6: each iteration of the post-copy publish loop goes on to the next
\* module; in a run that is not a dry run it publishes the module exactly
\* when the module is valid and its chapter is in the active chapter set; a
\* failed publish invalidates that module only and appends exactly one
\* failure record (full title, publishing module); the loop is left only
\* after the last module.
C6_PostCopyPublish ==
    [][ /\ (pc = "publish" /\ pub_i < Len(modules)) =>
            LET i == pub_i + 1
                m == modules[i]
                attempted == /\ m.valid
                             /\ m.chapter_number \in Range(chapters)
                             /\ ~run_options.dryrun
            IN  /\ pub_i' = pub_i + 1
                /\ pc' = "publish"
                /\ \A j \in 1..Len(modules) : j /= i => modules'[j] = modules[j]
                /\ IF attempted
                   THEN /\ Len(ops') = Len(ops) + 1
                        /\ SubSeq(ops', 1, Len(ops)) = ops
                        /\ ops'[Len(ops')].op = "publish_module"
                        /\ ops'[Len(ops')].mod = i
                        /\ IF ops'[Len(ops')].result = "ok"
                           THEN modules' = modules /\ failures' = failures
                           ELSE /\ modules'[i] = [m EXCEPT !.valid = FALSE]
                                /\ failures' = Append(failures,
                                       Failure(full_title(m), "publishing module"))
                   ELSE ops' = ops /\ modules' = modules /\ failures' = failures
        /\ (pc /= "publish" /\ pc' = "publish") => pub_i' = 0
        /\ (pc = "publish" /\ pc' /= "publish") =>
               pub_i = Len(modules) /\ ops' = ops /\ failures' = failures
      ]_vars

C6_Witness ==
    /\ pc = "done"
    /\ \E a \in FailedOpsOf("publish_module") :
          \E b \in OpsOf("publish_module") :
              a < b /\ ops[b].result = "ok" /\ ops[a].mod < ops[b].mod

\* C7: once run() is past the placeholder stage it had entered, the output
\* manifest has been persisted, and it was persisted before any call of a
\* later stage.
C7_Claim ==
    ( /\ run_options.modules \/ run_options.workgroups
      /\ pc \in {"copy", "roles", "create_collection", "populate_collection",
                 "publish", "handler", "report", "done", "crashed"} ) =>
        /\ files.output /= NoFile
        /\ \A k \in 1..Len(ops) :
               ops[k].stage >= 2 => \E j \in 1..(k - 1) : ops[j].op = "save_output"

\* C8: when a CCTError has left a stage, the manifest is persisted in its
\* error form, nothing of a later stage is called (the failed call is
\* followed by the save only), and the run goes on to print every failure
\* and to report its completion.
C8_TopLevelError ==
    escaped = "CCTError" =>
        \/ pc = "handler" /\ ENABLED HandleCCTError
        \/ /\ pc \in {"report", "done"}
           /\ pc = "report" => ENABLED Report
           /\ pc = "done" => printed = failures
           /\ files.error /= NoFile
           /\ Len(files.error) = Len(modules) + 1
           /\ Len(ops) >= 2
           /\ ops[Len(ops)].op = "save_error"
           /\ ops[Len(ops) - 1].result = "failed"
           /\ \A k \in 1..(Len(ops) - 1) : ops[k].stage <= ops[Len(ops) - 1].stage

C8_Witness ==
    /\ escaped = "CCTError"
    /\ pc = "done"
    /\ files.error /= NoFile
    /\ printed /= <<>>
    /\ run_options.publish
    /\ OpsOf("copy_content") /= {}

\* C9: no error raised inside a stage crashes the run: run() is left normally
\* or through the CCTError handler.
C9_Claim == pc /= "crashed"

\* C10: a failed creation of a unit or of a chapter subcollection is recorded
\* as exactly one failure record and ends the collection stage only: no
\* exception leaves the stage and the post-copy publish stage, if enabled,
\* is run.
C10_Claim ==
    (FailedOpsOf("add_unit_subcollection") \cup FailedOpsOf("add_chapter_subcollection")) /= {}
        => /\ escaped = "none"
           /\ Cardinality({f \in 1..Len(failures) :
                  failures[f] = Failure(Lit("creating subcollections"), "")}) = 1
           /\ (run_options.publish /\ pc \in {"report", "done"}) => pub_i = Len(modules)

\* C11: every attachment of a module of chapter "0" is made under the root
\* collection, also when unit grouping is enabled, and no module whose unit
\* number is "APPENDIX" is attached to a unit subcollection or to a chapter
\* subcollection that lies under a unit subcollection.
C11_Claim ==
    \A k \in 1..Len(attached) :
        LET m == modules[attached[k].mod]
            p == attached[k].parent
        IN  /\ m.chapter_number = <<"0">> => p = collection
            /\ m.unit_number = APPENDIX =>
                   /\ colls[p].kind /= "unit"
                   /\ colls[p].kind = "chapter" => colls[colls[p].parent].kind /= "unit"

\* C12: in a dry run the role-acceptance, collection and post-copy publish
\* stages make no call to a collaborator, create no collection, attach no
\* module, append no failure record and leave every module as it is; the
\* role-acceptance stage is not entered at all.
C12_DryRunStages ==
    [][ (run_options.dryrun /\ PcStage \in 3..5) =>
            /\ pc /= "roles"
            /\ ops' = ops
            /\ failures' = failures
            /\ modules' = modules
            /\ colls' = colls
            /\ attached' = attached
            /\ collection' = collection
      ]_vars

C12_Witness ==
    /\ run_options.dryrun
    /\ run_options.accept_roles /\ run_options.collections /\ run_options.units
    /\ run_options.publish /\ run_options.publish_collection
    /\ pc = "done"
    /\ pub_i = Len(modules) /\ cwg_i = Len(workgroups)
    /\ Len(workgroups) > 0
    /\ \E i \in 1..Len(modules) : PublishFilter(modules[i])

\* The calls that reach the destination: every call of the role-acceptance,
\* collection and publish stages, and a call of the placeholder or copy stage
\* that is not made with dryrun set.
RemoteCalls ==
    {k \in 1..Len(ops) :
        \/ ops[k].stage \in 3..5
        \/ ops[k].stage \in 1..2 /\ ops[k].op /= "save_output" /\ ~ops[k].dryrun}

\* The cells of a manifest row, counted from its end (the unit columns, when
\* written, come first).
ChapterCell(row) == row[Len(row) - 5]

TitleCell(row) == row[Len(row) - 3]

DestinationCells(row) == <<row[Len(row) - 1], row[Len(row)]>>

\* C13 (as stated): a finished dry run with workgroups and collections
\* disabled and copy enabled has made no remote call, has an empty failure
\* list, and has left an output manifest of one row per input row whose
\* destination columns are empty.
C13_Claim ==
    (pc = "done" /\ run_options.dryrun /\ ~run_options.workgroups
     /\ ~run_options.collections /\ run_options.copy) =>
        /\ RemoteCalls = {}
        /\ failures = <<>>
        /\ files.output /= NoFile
        /\ Len(files.output) = Len(files.input) + 1
        /\ \A i \in 1..Len(files.input) :
               DestinationCells(files.output[i + 1]) = << <<>>, <<>> >>

\* C13 (amended): a finished dry run with module placeholders enabled,
\* workgroups and collections disabled and copy enabled has made no remote
\* call, has an empty failure list, and has left an output manifest of one row
\* per input row, in file order, whose destination columns are those of the
\* input row (empty where the input gives none).
C13_DryRun ==
    (pc = "done" /\ run_options.dryrun /\ run_options.modules
     /\ ~run_options.workgroups /\ ~run_options.collections /\ run_options.copy) =>
        /\ RemoteCalls = {}
        /\ failures = <<>>
        /\ files.output /= NoFile
        /\ Len(files.output) = Len(files.input) + 1
        /\ \A i \in 1..Len(files.input) :
               /\ ChapterCell(files.output[i + 1]) = Cell(files.input[i], "chapter_number")
               /\ TitleCell(files.output[i + 1]) = TitleOfRow(i)
               /\ DestinationCells(files.output[i + 1]) =
                      << Cell(files.input[i], "destination_id"),
                         Cell(files.input[i], "destination_workspace_url") >>

C13_Witness ==
    /\ pc = "done" /\ run_options.dryrun /\ run_options.modules
    /\ ~run_options.workgroups /\ ~run_options.collections /\ run_options.copy
    /\ run_options.publish /\ run_options.accept_roles
    /\ Len(files.input) = 2
    /\ Cell(files.input[1], "destination_id") /= <<>>
    /\ Cell(files.input[2], "destination_id") = <<>>
    /\ Cardinality(OpsOf("create_module")) = 2
    /\ OpsOf("copy_content") /= {}

\* The chapter numbers of the rows, each once.
ChaptersSeen(rows) == {rows[i].chapter_number : i \in 1..Len(rows)}

\* The row a chapter number first appears in.
FirstRowOf(rows, c) ==
    CHOOSE i \in 1..Len(rows) :
        rows[i].chapter_number = c /\ \A j \in 1..(i - 1) : rows[j].chapter_number /= c

\* Whether d lists the chapters of the rows once each, by first appearance.
IsDiscovered(d, rows) ==
    /\ Len(d) = Cardinality(ChaptersSeen(rows))
    /\ Range(d) = ChaptersSeen(rows)
    /\ \A a, b \in 1..Len(d) : a < b => FirstRowOf(rows, d[a]) < FirstRowOf(rows, d[b])

\* Whether r is base with exactly the members of excl struck out.
IsBaseMinus(r, base, excl) ==
    LET keep    == {j \in 1..Len(base) : base[j] \notin Range(excl)}
        nth(k)  == CHOOSE j \in keep : Cardinality({x \in keep : x < j}) = k - 1
    IN  /\ Len(r) = Cardinality(keep)
        /\ \A k \in 1..Len(r) : r[k] = base[nth(k)]

\* C14: the chapter set Bookmap.__init__ resolves is the include list if that
\* is not empty, else the distinct chapter numbers in order of first appearance
\* in the file, with the chapters of the exclude list removed and the order of
\* the others kept.
C14_Resolution ==
    [][ pc = "main" =>
          LET include == run_options.chapters
              exclude == run_options.exclude
          IN  IF include /= <<>>
              THEN IsBaseMinus(chapters', include, exclude)
              ELSE \E d \in [1..Cardinality(ChaptersSeen(files.input)) ->
                                ChaptersSeen(files.input)] :
                       /\ IsDiscovered(d, files.input)
                       /\ IsBaseMinus(chapters', d, exclude)
      ]_vars

C14_Witness ==
    /\ pc = "constructed"
    /\ Len(files.input) = 2
    /\ files.input[1].chapter_number = <<"2">>
    /\ files.input[2].chapter_number = <<"1">>
    /\ run_options.exclude = << <<"2">> >>
    /\ chapters = << <<"1">> >>
    /\ run_options.chapters = chapters

\* C15: the chapter set of the run options is the active chapter set of the
\* Bookmap in every state after construction, also once a failed workgroup
\* has had its chapter removed: the placeholder stage and the post-copy
\* publish stage filter the modules against the same set.
C15_OneChapterSet ==
    /\ run_options.chapters = chapters
    /\ \A i \in 1..Len(modules) :
           PublishFilter(modules[i]) <=>
               (modules[i].valid /\ modules[i].chapter_number \in Range(chapters))

C15_Witness ==
    /\ pc = "done"
    /\ FailedOpsOf("create_workgroup") /= {}
    /\ chapters /= <<>>
    /\ OpsOf("create_module") /= {}
    /\ OpsOf("publish_module") /= {}

\* C16: no step of a run changes the run options: every field, the chapter
\* set and the exclusion set included, keeps the value it had when the
\* Bookmap was constructed.
C16_Claim == [][run_options' = run_options]_vars

\* The calls that left a module invalid.
InvalidatingOps ==
    {k \in 1..Len(ops) :
        \/ ops[k].op \in {"create_module", "publish_module"} /\ ops[k].result = "failed"
        \/ ops[k].op = "add_modules_to_collection" /\ ops[k].faults > 0
        \/ ops[k].op = "copy_content"
           /\ ops[k].faults > (IF ops[k].result = "failed" THEN 1 ELSE 0)}

\* C17: at the end of a run that persisted a manifest, the manifest persisted
\* last shows every module the run invalidated: no module was invalidated, in
\* whatever stage, after that manifest was written (a manifest written before
\* a module became invalid cannot tell it from a valid one).
C17_Claim ==
    (pc = "done" /\ (files.output /= NoFile \/ files.error /= NoFile)) =>
        \A k \in InvalidatingOps :
            \E j \in (k + 1)..Len(ops) : ops[j].op \in {"save_output", "save_error"}

\* The fields of a module that the manifest is said to give back.
ModuleFields ==
    {"section_number", "title", "source_workspace_url", "source_id",
     "destination_workspace_url", "destination_id", "chapter_number",
     "chapter_title", "unit_number", "unit_title"}

\* C18: reading a saved manifest (output or error variant, with or without
\* unit grouping) with the same column configuration gives the same sequence
\* of modules, each with the same section number, title, source workspace,
\* source id, destination workspace, destination id, chapter number and
\* title, and unit number and title.
C18_Claim ==
    [][ pc = "saved" =>
          /\ Len(modules') = Len(modules)
          /\ \A i \in 1..Len(modules) :
                 \A f \in ModuleFields : modules'[i][f] = modules[i][f]
      ]_vars

\* The manifests the run has written so far.
Persisted == {files.output, files.error} \ {NoFile}

\* C19: in every state the module list holds one module per data row of the
\* manifest, in file order, and every manifest written holds the header and
\* one row per module in that order, whether the module is valid or not and
\* whether its chapter is in the active chapter set or not, and nothing else.
C19_ModulesKept ==
    /\ Len(modules) = Len(files.input)
    /\ \A i \in 1..Len(modules) :
           /\ modules[i].title = TitleOfRow(i)
           /\ modules[i].chapter_number = Cell(files.input[i], "chapter_number")
           /\ modules[i].unit_number = Cell(files.input[i], "unit_number")
    /\ \A f \in Persisted :
           /\ Len(f) = Len(modules) + 1
           /\ \A i \in 1..Len(modules) :
                  /\ TitleCell(f[i + 1]) = full_title(modules[i])
                  /\ ChapterCell(f[i + 1]) = modules[i].chapter_number

C19_Witness ==
    /\ pc = "done"
    /\ files.output /= NoFile
    /\ Len(wg) > 0
    /\ Len(modules) = 2
    /\ ~modules[1].valid /\ modules[1].chapter_number \in Range(chapters)
    /\ modules[2].chapter_number \notin Range(chapters)

\* Nothing has been done yet: no call to a collaborator, no manifest written,
\* no module invalidated, no failure recorded.
NothingDone ==
    /\ ops = <<>>
    /\ Persisted = {}
    /\ failures = <<>>
    /\ colls = <<>> /\ attached = <<>>
    /\ modules = convert_modules(files.input)

\* C20: while the operator has not chosen to proceed nothing has been done;
\* at the prompt the operator can cancel, and cancelling ends the run with
\* nothing done and nothing left to happen.
C20_ConfirmationGate ==
    /\ pc = "confirm" => NothingDone /\ ENABLED (UserConfirm /\ pc' = "exited")
    /\ pc = "exited" => NothingDone /\ ~ENABLED Next

C20_Witness ==
    /\ pc = "exited"
    /\ Len(modules) = 2
    /\ ~run_options.dryrun
    /\ run_options.modules /\ run_options.copy /\ run_options.publish

\* What the full title of a module is said to be.
PrefixedTitle(m) ==
    IF m.section_number /= <<>> THEN m.section_number \o <<" ">> \o m.title
    ELSE m.title

\* C21: the full title of every module is its section number, a space and its
\* title when the section number is not empty (a section number of one space
\* included), and its title otherwise; a failure record names the module by
\* that, and the title column of every manifest written is the full title.
C21_Claim ==
    \A i \in 1..Len(modules) :
        /\ full_title(modules[i]) = PrefixedTitle(modules[i])
        /\ \A f \in Persisted : TitleCell(f[i + 1]) = full_title(modules[i])
        /\ \A k \in 1..Len(failures) : failures[k].entity = PrefixedTitle(modules[i])

\* C22: Bookmap.__init__ makes a module of every row: of a title that begins
\* with a digit the section number is what precedes the first space and the
\* module title what follows it; of any other title the section number is
\* empty and the module title the whole string; no title makes it fail.
C22_Claim ==
    [][ pc = "main" =>
          /\ pc' = "constructed"
          /\ Len(modules') = Len(files.input)
          /\ \A i \in 1..Len(files.input) :
                 LET t == files.input[i].module_title
                 IN  IF t /= <<>> /\ IsDigit(t[1])
                     THEN \E k \in 1..Len(t) :
                              /\ t[k] = " "
                              /\ \A j \in 1..(k - 1) : t[j] /= " "
                              /\ modules'[i].section_number = SubSeq(t, 1, k - 1)
                              /\ modules'[i].title = SubSeq(t, k + 1, Len(t))
                     ELSE /\ modules'[i].section_number = <<>>
                          /\ modules'[i].title = t
      ]_vars

\* C23: once the placeholder stage is over, a workgroup with members has the
\* unit number of its first member (the first module of its chapter, in
\* manifest order, that was placed), and a workgroup without members has an
\* empty unit number.
C23_Claim ==
    OpsOf("save_output") /= {} =>
        \A w \in DOMAIN wg :
            IF wg[w].modules /= <<>>
            THEN wg[w].unit_number = modules[wg[w].modules[1]].unit_number
            ELSE wg[w].unit_number = <<>>

\* The modules of chapter ch whose placeholder creation has succeeded so far.
Placed(ch) ==
    {i \in 1..Len(modules) :
        /\ modules[i].chapter_number = ch
        /\ \E k \in OpsOf("create_module") : ops[k].mod = i /\ ops[k].result = "ok"}

\* C24: with workgroups enabled, the member list of each workgroup holds
\* exactly the modules of its own chapter whose placeholder creation has
\* succeeded so far, each once and in manifest order; a module whose creation
\* failed and a module of another chapter are never members.
C24_Members ==
    run_options.workgroups =>
        \A w \in DOMAIN wg :
            LET members == wg[w].modules
            IN  /\ Range(members) = Placed(wg[w].chapter_number)
                /\ \A a, b \in 1..Len(members) : a < b => members[a] < members[b]

C24_Witness ==
    /\ pc = "done"
    /\ Len(modules) = 2
    /\ modules[1].chapter_number = modules[2].chapter_number
    /\ ~modules[1].valid
    /\ \E w \in DOMAIN wg : wg[w].modules = <<2>>
    /\ \E k \in FailedOpsOf("create_module") : ops[k].mod = 1

\* The calls that build the collection below its root.
MemberOps ==
    OpsOf("add_unit_subcollection") \cup OpsOf("add_chapter_subcollection")
        \cup OpsOf("add_modules_to_collection")

\* C25: the root collection is published at most once, only with
\* publish-collection enabled and not in a dry run, only after every call that
\* adds a subcollection or modules, never after the creation of the root or of
\* a subcollection has failed, and a failed publish is recorded as exactly one
\* failure.
C25_PublishCollection ==
    /\ Cardinality(OpsOf("publish_collection")) <= 1
    /\ \A p \in OpsOf("publish_collection") :
           /\ run_options.publish_collection /\ ~run_options.dryrun
           /\ \A k \in MemberOps : k < p
           /\ FailedOpsOf("create_collection") = {}
           /\ OpsOf("create_collection") /= {}
           /\ FailedOpsOf("add_unit_subcollection") = {}
           /\ FailedOpsOf("add_chapter_subcollection") = {}
    /\ Cardinality({f \in 1..Len(failures) :
                        failures[f] = Failure(Lit("publishing collection"), "")})
           = Cardinality(FailedOpsOf("publish_collection"))

C25_Witness ==
    /\ pc = "done"
    /\ FailedOpsOf("publish_collection") /= {}
    /\ OpsOf("add_unit_subcollection") /= {}
    /\ OpsOf("add_chapter_subcollection") /= {}
    /\ OpsOf("add_modules_to_collection") /= {}
    /\ attached /= <<>>

\* The unit subcollections, in the order of their creation.
UnitColls == SelectSeq([c \in 1..Len(colls) |-> c], LAMBDA c : colls[c].kind = "unit")

\* Whether the loop over the units has run to its end in a run that is not dry.
UnitLoopDone ==
    /\ run_options.units /\ ~run_options.dryrun
    /\ collection /= 0
    /\ unit_i = Len(as_list)

\* C26: with unit grouping in a run that is not dry, once the loop over the
\* units is through there is exactly one unit subcollection, under the root,
\* for each distinct (unit number, unit title) pair of the modules of the
\* active chapters whose unit number is neither APPENDIX nor empty, the
\* subcollections were created in ascending order of unit number, and every
\* chapter subcollection nested under a unit subcollection is under one made
\* for a (unit number, unit title) pair that a module of its workgroup carries.
C26_Claim ==
    /\ UnitLoopDone =>
         /\ { <<colls[UnitColls[k]].unit, colls[UnitColls[k]].title>> :
                k \in 1..Len(UnitColls) } = UnitPairs(modules, chapters)
         /\ Len(UnitColls) = Cardinality(UnitPairs(modules, chapters))
         /\ \A k \in 1..Len(UnitColls) : colls[UnitColls[k]].parent = collection
         /\ \A j, k \in 1..Len(UnitColls) :
                j < k => ~StrLess(colls[UnitColls[k]].unit, colls[UnitColls[j]].unit)
    /\ \A c \in 1..Len(colls) :
           (colls[c].kind = "chapter" /\ run_options.units) =>
               /\ colls[c].parent \in Range(UnitColls)
               /\ \E w \in 1..Len(wg) :
                      /\ wg[w].chapter_number = colls[c].ch
                      /\ \E m \in Range(wg[w].modules) :
                             /\ modules[m].unit_number = colls[colls[c].parent].unit
                             /\ modules[m].unit_title = colls[colls[c].parent].title

\* Every module marked invalid has a failure record under its full title.
InvalidRecorded ==
    \A i \in 1..Len(modules) :
        ~modules[i].valid =>
            \E f \in 1..Len(failures) : failures[f].entity = full_title(modules[i])

\* A step keeps the modules, never makes an invalid module valid, and only
\* appends to the failure list.
ValidMonotone ==
    /\ Len(modules') = Len(modules)
    /\ \A i \in 1..Len(modules) : ~modules[i].valid => ~modules'[i].valid
    /\ Len(failures') >= Len(failures)
    /\ \A f \in 1..Len(failures) : failures'[f] = failures[f]

\* C27: across the stages a module that has become invalid never becomes
\* valid again, the failure list only grows at its end (no record is removed,
\* reordered or merged), and in every reachable state every invalid module
\* has at least one failure record whose entity is the module's full title.
C27_ValidMonotone == []InvalidRecorded /\ [][ValidMonotone]_vars

\* A run that ended with a module invalidated by its workgroup's failure, a
\* module invalidated by a later stage, and the records of both.
C27_Witness ==
    /\ pc = "done"
    /\ Len(failures) >= 2
    /\ FailedOpsOf("create_workgroup") /= {}
    /\ \E i \in 1..Len(modules) : ~modules[i].valid
    /\ \E k \in 1..Len(ops) : ops[k].stage > 1 /\ ops[k].faults > 0

\* The active chapter set as resolved at construction: a chapter leaves the
\* set only in the handler of a failed workgroup creation.
ConstructionChapters ==
    Range(chapters) \cup {ops[k].ch : k \in FailedOpsOf("create_workgroup")}

\* The modules whose chapter is not in that set.
OutsideModules ==
    {i \in 1..Len(modules) : modules[i].chapter_number \notin ConstructionChapters}

\* C28: a module whose chapter number is not in the active chapter set
\* resolved at construction is the target of no call (placeholder creation,
\* publish or any other), is a member of no workgroup and attached to no
\* collection, keeps valid = TRUE and the destination columns of its manifest
\* row, and no failure record carries its full title, whatever fails
\* elsewhere.
C28_OutsideUntouched ==
    \A i \in OutsideModules :
        /\ \A k \in 1..Len(ops) : ops[k].mod /= i
        /\ \A w \in 1..Len(wg) : i \notin Range(wg[w].modules)
        /\ \A a \in 1..Len(attached) : attached[a].mod /= i
        /\ modules[i].valid
        /\ modules[i] = convert_modules(files.input)[i]
        /\ \A f \in 1..Len(failures) : failures[f].entity /= full_title(modules[i])

\* A finished run over a manifest with a module outside the chapter set, in
\* which a module inside the set was placed and another call failed.
C28_Witness ==
    /\ pc = "done"
    /\ OutsideModules /= {}
    /\ failures /= <<>>
    /\ \E k \in OpsOf("create_module") : ops[k].result = "ok" /\ ~ops[k].dryrun

=============================================================================
